---------------------------- MODULE Spec2Model ----------------------------
(***************************************************************************)
(* Model of reincarnating_rl/persistence_networks.py: the configuration    *)
(* record of get_atari_b14_config, the Atari input preprocessor and the    *)
(* forward passes of NatureResidualDQNNetwork, ImpalaRainbowNetwork and    *)
(* ImpalaImplicitQuantileNetwork.                                          *)
(*                                                                         *)
(* Numbers.  float32 values are modelled as exact rationals <<n, d>> in    *)
(* lowest terms with d > 0, so that x / 255., jnp.mean and the softmax     *)
(* normalisation are computed rather than assumed.  exp is computed in     *)
(* fixed point (ExpNeg), with underflow to 0 as in float32.                *)
(*                                                                         *)
(* Tensors.  A 1-D array is a sequence of rationals, a 2-D array a         *)
(* sequence of rows.  Image frames are modelled already flattened, with    *)
(* one channel; the widths 512, 32, 64, ... of the layers are scaled down  *)
(* to HiddenFeatures.  Element-wise operators follow the broadcasting      *)
(* rule of the framework (Broadcast).                                      *)
(***************************************************************************)
EXTENDS Integers, Sequences, FiniteSets, TLC

VARIABLES
  module,    \* the constructed network: its dataclass attributes
  params,    \* the parameter set handed to apply()
  clock,     \* the wall clock, in microseconds: int(time.time() * 1e6)
  status,    \* "idle" | "returned" | "raised": the last forward pass
  args,      \* the caller-supplied arguments of the last forward pass
  trace,     \* the intermediate tensors of the last forward pass
  out,       \* the output record of the last forward pass
  repeated,  \* the last forward pass had the arguments of the one before
  agrees,    \* ... and returned the same as the one before
  held,      \* the caller holds a record from get_atari_b14_config
  config,    \* that record
  assigned   \* the fields the holder has assigned since it was returned

vars == <<module, params, clock, status, args, trace, out, repeated, agrees,
          held, config, assigned>>

netVars == <<module, params, clock, status, args, trace, out, repeated, agrees>>

cfgVars == <<held, config, assigned>>

-----------------------------------------------------------------------------
(* Bounds of the model.                                                    *)

MaxActions == 2

MaxAtoms == 2

MaxQuantiles == 2

MaxEmbeddingDim == 2

MaxClock == 1

HiddenFeatures == 2

FixedPointScale == 100

ExpTerms == 8

ExpUnderflow == 4

-----------------------------------------------------------------------------
(* Rationals.                                                              *)

Abs(n) == IF n < 0 THEN -n ELSE n

RECURSIVE Gcd(_, _)
Gcd(a, b) == IF b = 0 THEN a ELSE Gcd(b, a % b)

Rat(n, d) ==
  LET s == IF d < 0 THEN -1 ELSE 1
      g == Gcd(Abs(n), Abs(d))
  IN  <<(s * n) \div g, (s * d) \div g>>

RInt(n) == <<n, 1>>

RAdd(p, q) == Rat(p[1] * q[2] + q[1] * p[2], p[2] * q[2])

RSub(p, q) == Rat(p[1] * q[2] - q[1] * p[2], p[2] * q[2])

RMul(p, q) == Rat(p[1] * q[1], p[2] * q[2])

RDiv(p, q) == Rat(p[1] * q[2], p[2] * q[1])

RLe(p, q) == p[1] * q[2] <= q[1] * p[2]

RLt(p, q) == p[1] * q[2] < q[1] * p[2]

RMax(p, q) == IF RLe(p, q) THEN q ELSE p

RRelu(p) == IF p[1] < 0 THEN RInt(0) ELSE p

-----------------------------------------------------------------------------
(* Arrays.                                                                 *)

RECURSIVE VSum(_)
VSum(v) == IF v = <<>> THEN RInt(0) ELSE RAdd(v[1], VSum(Tail(v)))

RECURSIVE VMax(_)
VMax(v) == IF Len(v) = 1 THEN v[1] ELSE RMax(v[1], VMax(Tail(v)))

RECURSIVE VMin(_)
VMin(v) == IF Len(v) = 1 THEN v[1]
           ELSE LET m == VMin(Tail(v)) IN IF RLe(v[1], m) THEN v[1] ELSE m

\* An array held in memory: its entries are computed once, when it is built.
Array(f) == f \o <<>>

Rows(m) == Len(m)

Cols(m) == Len(m[1])

Shape(m) == <<Rows(m), Cols(m)>>

IsMatrix(m, r, c) == Len(m) = r /\ \A i \in 1..r : Len(m[i]) = c

Column(m, k) == Array([a \in 1..Rows(m) |-> m[a][k]])

ShapeError == <<>>

\* numpy broadcasting of two 2-D shapes: each axis must agree or be 1.
Broadcastable(X, Y) ==
  /\ Rows(X) = Rows(Y) \/ Rows(X) = 1 \/ Rows(Y) = 1
  /\ Cols(X) = Cols(Y) \/ Cols(X) = 1 \/ Cols(Y) = 1

\* One element-wise operator on two entries.
Elementwise(op, x, y) ==
  CASE op = "+" -> RAdd(x, y)
    [] op = "-" -> RSub(x, y)
    [] op = "*" -> RMul(x, y)

Broadcast(op, X, Y) ==
  IF ~Broadcastable(X, Y) THEN ShapeError
  ELSE LET r == IF Rows(X) = 1 THEN Rows(Y) ELSE Rows(X)
           c == IF Cols(X) = 1 THEN Cols(Y) ELSE Cols(X)
           At(M, i, j) == M[IF Rows(M) = 1 THEN 1 ELSE i][IF Cols(M) = 1 THEN 1 ELSE j]
       IN  Array([i \in 1..r |->
                    Array([j \in 1..c |-> Elementwise(op, At(X, i, j), At(Y, i, j))])])

\* x.reshape((rows, cols)) of a 1-D array, row-major.
Reshape(v, rows, cols) ==
  Array([a \in 1..rows |-> Array([k \in 1..cols |-> v[(a - 1) * cols + k]])])

\* jnp.mean(m, axis=1, keepdims=True)
MeanAxis1(m) ==
  Array([a \in 1..Rows(m) |-> << RDiv(VSum(m[a]), RInt(Cols(m))) >>])

\* jnp.mean(m, axis=0, keepdims=True)
MeanAxis0(m) ==
  << Array([k \in 1..Cols(m) |-> RDiv(VSum(Column(m, k)), RInt(Rows(m)))]) >>

\* jnp.sum(m, axis=0)
SumAxis0(m) == Array([k \in 1..Cols(m) |-> VSum(Column(m, k))])

\* jnp.sum(m, axis=1)
SumAxis1(m) == Array([a \in 1..Rows(m) |-> VSum(m[a])])

\* jnp.tile(v, [n, 1]) of a 1-D array
TileRows(v, n) == Array([q \in 1..n |-> v])

\* jnp.tile(m, [1, n]) of a column
TileCols(m, n) == Array([q \in 1..Rows(m) |-> Array([i \in 1..n |-> m[q][1]])])

VRelu(v) == Array([i \in 1..Len(v) |-> RRelu(v[i])])

MRelu(m) == Array([q \in 1..Len(m) |-> VRelu(m[q])])

-----------------------------------------------------------------------------
(* The numerical framework: exp and softmax, pseudo-random draws, cos.      *)

\* S * (1 + t/S + (t/S)^2/2! + ...) for a fixed-point t >= 0, ExpTerms terms.
RECURSIVE ExpSeries(_, _, _)
ExpSeries(t, i, term) ==
  term + (IF i > ExpTerms THEN 0
          ELSE ExpSeries(t, i + 1, (term * t) \div (FixedPointScale * i)))

\* exp(x) for a rational x <= 0, in units of 1/FixedPointScale; 0 on underflow.
ExpNeg(x) ==
  LET t == ((-x[1]) * FixedPointScale) \div x[2]
  IN  IF t >= ExpUnderflow * FixedPointScale THEN 0
      ELSE (FixedPointScale * FixedPointScale) \div ExpSeries(t, 1, FixedPointScale)

\* jax.random.PRNGKey(seed)
PRNGKey(seed) == seed

\* jax.random.normal(key, shape): a deterministic function of the key.
RandomNormal(key, i) == ((key + i) % 3) - 1

\* The values jax.random.uniform draws from, all in [0, 1).
UniformGrid == << <<0, 1>>, <<1, 3>>, <<1, 2>>, <<2, 3>> >>

\* jax.random.uniform(key, shape=[n, 1]): a deterministic function of the key.
RandomUniform(key, n) ==
  Array([q \in 1..n |->
           << UniformGrid[((3 * key + q - 1) % Len(UniformGrid)) + 1] >>])

\* cos(pi * r) for the rationals r whose cosine is rational (r a multiple of
\* 1/2 or of 1/3).
CosPi(r) ==
  LET m == (r[1] * (6 \div r[2])) % 12
  IN  CASE m = 0 -> <<1, 1>>
        [] m \in {2, 10} -> <<1, 2>>
        [] m \in {3, 9} -> <<0, 1>>
        [] m \in {4, 8} -> <<-1, 2>>
        [] m = 6 -> <<-1, 1>>

-----------------------------------------------------------------------------
(* Layers.  A parameter set is a member of a finite family: seed selects   *)
(* the kernels, bias the bias entries (zero when freshly initialised), and *)
(* alpha is the residual scale of NatureResidualDQNNetwork.                *)

Kernel(p, layer, i, j) == RInt(((p.seed * (i + j + layer) + i + j) % 3) - 1)

Bias(p, layer, j) == RInt(p.bias)

\* nn.Dense(features)(x) on a 1-D array
Dense(p, layer, x, features) ==
  Array([j \in 1..features |->
     RAdd(VSum(Array([i \in 1..Len(x) |-> RMul(x[i], Kernel(p, layer, i, j))])),
          Bias(p, layer, j))])

\* nn.Dense(features)(m) on a 2-D array: applied to the last axis
DenseRows(p, layer, m, features) ==
  Array([q \in 1..Len(m) |-> Dense(p, layer, m[q], features)])

\* nn.Conv on a one-channel frame
Conv(p, layer, x) ==
  Array([i \in 1..Len(x) |->
           RAdd(RMul(x[i], Kernel(p, layer, 1, 1)), Bias(p, layer, 1))])

\* dopamine's NoisyNetwork: factored Gaussian noise drawn from the key,
\* switched off in eval mode.
NoisyDense(p, layer, key, eval_mode, x, features) ==
  LET eps_w(i, j) == IF eval_mode THEN 0
                     ELSE RandomNormal(key, i) * RandomNormal(key, j)
      eps_b(j)    == IF eval_mode THEN 0 ELSE RandomNormal(key, j)
  IN  Array([j \in 1..features |->
         RAdd(VSum(Array([i \in 1..Len(x) |->
                      RMul(x[i], RAdd(Kernel(p, layer, i, j), RInt(eps_w(i, j))))])),
              RAdd(Bias(p, layer, j), RInt(eps_b(j))))])

\* networks.feature_layer(key, noisy, eval_mode)(x, features)
FeatureLayer(p, layer, key, noisy, eval_mode, x, features) ==
  IF noisy THEN NoisyDense(p, layer, key, eval_mode, x, features)
  ELSE Dense(p, layer, x, features)

\* nn.softmax(m, axis=0)
SoftmaxAxis0(m) ==
  Array([a \in 1..Rows(m) |-> Array([k \in 1..Cols(m) |->
     LET col == Column(m, k)
         w   == Array([b \in 1..Rows(m) |-> ExpNeg(RSub(col[b], VMax(col)))])
     IN  Rat(w[a], VSum(Array([b \in 1..Rows(m) |-> RInt(w[b])]))[1])])])

\* nn.softmax(m): over the last axis, exp(x - max) / sum
Softmax(m) ==
  Array([a \in 1..Rows(m) |->
     LET mx == VMax(m[a])
         w  == Array([k \in 1..Cols(m) |-> ExpNeg(RSub(m[a][k], mx))])
         z  == VSum(Array([k \in 1..Cols(m) |-> RInt(w[k])]))[1]
     IN  Array([k \in 1..Cols(m) |-> Rat(w[k], z)])])

-----------------------------------------------------------------------------
(* preprocess_atari_inputs and the encoders.                               *)

preprocess_atari_inputs(x) == Array([i \in 1..Len(x) |-> RDiv(x[i], RInt(255))])

\* x = preprocess_atari_inputs(x), whatever inputs_preprocessed is
PreprocessAlways(inputs_preprocessed, x) == preprocess_atari_inputs(x)

\* if not self.inputs_preprocessed: x = preprocess_atari_inputs(x)
FirstLayerInput(inputs_preprocessed, x) ==
  IF ~inputs_preprocessed THEN preprocess_atari_inputs(x) ELSE x

VAdd(x, y) == Array([i \in 1..Len(x) |-> RAdd(x[i], y[i])])

RECURSIVE ResidualBlocks(_, _, _, _)
ResidualBlocks(p, layer, y, n) ==
  IF n = 0 THEN y
  ELSE ResidualBlocks(p, layer,
         VAdd(y, Conv(p, layer, VRelu(Conv(p, layer, VRelu(y))))), n - 1)

\* impala_networks.Stack(num_ch, num_blocks)(x)
Stack(p, layer, blocks, x) ==
  ResidualBlocks(p, layer, Conv(p, layer, x), blocks)

stack_sizes == <<16, 32, 32>>

num_blocks == 2

RECURSIVE EncoderStacks(_, _, _)
EncoderStacks(p, k, conv_out) ==
  IF k > Len(stack_sizes) THEN conv_out
  ELSE EncoderStacks(p, k + 1, Stack(p, k, num_blocks, conv_out))

ImpalaEncoder(p, x) == VRelu(EncoderStacks(p, 1, x))

-----------------------------------------------------------------------------
(* The forward passes.  Each yields the status of the call ("returned", or *)
(* "raised" when a framework operation fails), its intermediate tensors    *)
(* and the output record.                                                  *)

NoRecord == [none |-> TRUE]

\* NetworkType = collections.namedtuple('dqn_network', ['q_values'])
NetworkType(q_values) == [q_values |-> q_values]

\* atari_lib.DQNNetworkType
DQNNetworkType(q_values) == [q_values |-> q_values]

\* atari_lib.RainbowNetworkType
RainbowNetworkType(q_values, logits, probabilities) ==
  [q_values |-> q_values, logits |-> logits, probabilities |-> probabilities]

\* atari_lib.ImplicitQuantileNetworkType
ImplicitQuantileNetworkType(quantile_values, quantiles) ==
  [quantile_values |-> quantile_values, quantiles |-> quantiles]

\* NatureResidualDQNNetwork.__call__(x)
NatureForward(m, p, a) ==
  LET x0 == FirstLayerInput(m.inputs_preprocessed, a.x)
      c1 == VRelu(Conv(p, 1, x0))
      c2 == VRelu(Conv(p, 2, c1))
      c3 == VRelu(Conv(p, 3, c2))
      h  == VRelu(Dense(p, 4, c3, HiddenFeatures))
      q_values == Dense(p, 5, h, m.num_actions)
      scaled   == Broadcast("*", <<q_values>>, <<p.alpha>>)
  IN  [status |-> "returned",
       trace  |-> [first_layer_input |-> x0, dense_out |-> q_values],
       out    |-> NetworkType(scaled[1])]

\* value + (adv - jnp.mean(adv, axis=0, keepdims=True))
DuelingLogits(value, adv) ==
  Broadcast("+", value, Broadcast("-", adv, MeanAxis0(adv)))

\* A key made from the clock whether or not the caller gave one.
NoiseKeyFromClock(key, clk) == PRNGKey(clk)

\* The key of the noisy layers: the caller's, or one made from the clock.
NoiseKey(key, clk) == IF key = <<>> THEN PRNGKey(clk) ELSE key[1]

\* The distributional head with a failed product replaced by zeros.
DistributionalHeadAbsorbing(logits, support) ==
  LET probabilities == Softmax(logits)
      weighted      == Broadcast("*", <<support>>, probabilities)
      q_values      == IF weighted = ShapeError
                       THEN Array([a \in 1..Rows(logits) |-> RInt(0)])
                       ELSE SumAxis1(weighted)
  IN  [status |-> "returned",
       out |-> RainbowNetworkType(q_values, logits, probabilities)]

\* The distributional head: softmax over atoms, expectation over the support.
DistributionalHead(logits, support) ==
  LET probabilities == Softmax(logits)
      weighted      == Broadcast("*", <<support>>, probabilities)
  IN  IF weighted = ShapeError
      THEN [status |-> "raised", out |-> NoRecord]
      ELSE [status |-> "returned",
            out |-> RainbowNetworkType(SumAxis1(weighted), logits, probabilities)]

\* The scalar head returning the record of the distributional one.
ScalarHeadDistribution(logits, support) ==
  [status |-> "returned",
   out |-> RainbowNetworkType(SumAxis1(logits), logits, Softmax(logits))]

\* The scalar head: q_values = jnp.sum(logits, axis=1)
ScalarHead(logits, support) ==
  [status |-> "returned", out |-> DQNNetworkType(SumAxis1(logits))]

\* ImpalaRainbowNetwork.__call__(x, support, eval_mode, key)
RainbowForward(m, p, clk, a) ==
  LET key == NoiseKey(a.key, clk)
      x0  == FirstLayerInput(m.inputs_preprocessed, a.x)
      enc == ImpalaEncoder(p, x0)
      h   == VRelu(FeatureLayer(p, 4, key, m.noisy, a.eval_mode, enc, HiddenFeatures))
      stream == FeatureLayer(p, 5, key, m.noisy, a.eval_mode, h,
                             m.num_actions * m.num_atoms)
      value  == IF m.dueling
                THEN Reshape(FeatureLayer(p, 6, key, m.noisy, a.eval_mode, h,
                                          m.num_atoms), 1, m.num_atoms)
                ELSE <<>>
      logits == IF m.dueling
                THEN DuelingLogits(value, Reshape(stream, m.num_actions, m.num_atoms))
                ELSE Reshape(stream, m.num_actions, m.num_atoms)
      head   == IF m.distributional THEN DistributionalHead(logits, a.support)
                ELSE ScalarHead(logits, a.support)
  IN  [status |-> head.status,
       trace  |-> [first_layer_input |-> x0, key |-> key, stream |-> stream,
                   value |-> value, logits |-> logits],
       out    |-> head.out]

\* jnp.arange(0, quantile_embedding_dim, 1)
EmbeddingRangeFromZero(dim) == Array([i \in 1..dim |-> RInt(i - 1)])

\* jnp.arange(1, quantile_embedding_dim + 1, 1)
EmbeddingRange(dim) == Array([i \in 1..dim |-> RInt(i)])

\* cos(arange(1, dim + 1) * pi * tile(quantiles, [1, dim]))
QuantileEmbedding(quantiles, dim) ==
  LET angles == Broadcast("*", <<EmbeddingRange(dim)>>, TileCols(quantiles, dim))
  IN  Array([q \in 1..Rows(angles) |->
               Array([i \in 1..Cols(angles) |-> CosPi(angles[q][i])])])

\* ImpalaImplicitQuantileNetwork.__call__(x, num_quantiles, rng)
IQNForward(m, p, a) ==
  LET x0  == FirstLayerInput(m.inputs_preprocessed, a.x)
      enc == ImpalaEncoder(p, x0)
      state_vector_length == Len(enc)
      state_net_tiled == TileRows(enc, a.num_quantiles)
      quantiles == RandomUniform(a.rng, a.num_quantiles)
      embedding == QuantileEmbedding(quantiles, m.quantile_embedding_dim)
      quantile_net == MRelu(DenseRows(p, 4, embedding, state_vector_length))
      x  == Broadcast("*", state_net_tiled, quantile_net)
      h  == MRelu(DenseRows(p, 5, x, HiddenFeatures))
      quantile_values == DenseRows(p, 6, h, m.num_actions)
  IN  [status |-> "returned",
       trace  |-> [first_layer_input |-> x0, embedding |-> embedding],
       out    |-> ImplicitQuantileNetworkType(quantile_values, quantiles)]

-----------------------------------------------------------------------------
(* The networks a caller can construct, and what it can pass to them.      *)

NatureModules ==
  [kind : {"NatureResidualDQNNetwork"}, num_actions : 1..MaxActions,
   inputs_preprocessed : BOOLEAN]

RainbowModules ==
  [kind : {"ImpalaRainbowNetwork"}, num_actions : 1..MaxActions,
   num_atoms : 1..MaxAtoms, noisy : BOOLEAN, dueling : BOOLEAN,
   distributional : BOOLEAN, inputs_preprocessed : BOOLEAN]

IQNModules ==
  [kind : {"ImpalaImplicitQuantileNetwork"}, num_actions : 1..MaxActions,
   quantile_embedding_dim : 1..MaxEmbeddingDim, inputs_preprocessed : BOOLEAN]

Modules == NatureModules \cup RainbowModules \cup IQNModules

\* Raw frames hold pixel values 0..255; preprocessed frames are scaled already.
RawFrames == { <<RInt(1), RInt(0)>>, <<RInt(255), RInt(128)>> }

Frames(m) ==
  IF m.inputs_preprocessed THEN {preprocess_atari_inputs(f) : f \in RawFrames}
  ELSE RawFrames

\* jnp.linspace(-vmax, vmax, n)
Linspace(vmax, n) ==
  Array([k \in 1..n |-> IF n = 1 THEN RInt(-vmax)
                        ELSE RAdd(RInt(-vmax), Rat(2 * vmax * (k - 1), n - 1))])

\* The supports a caller may pass: of any length, not only num_atoms.
Supports == {Linspace(1, n) : n \in 1..(MaxAtoms + 1)}

\* The keys a caller passes.
Keys == {0, 1}

\* The keys parameters are initialised from.
Seeds == {0, 1}

\* key=None, or a key of the caller's
OptionalKeys == {<<>>} \cup {<<k>> : k \in Keys}

NatureArgs(m) == [x : Frames(m)]

RainbowArgs(m) ==
  [x : Frames(m), support : Supports, eval_mode : BOOLEAN, key : OptionalKeys]

IQNArgs(m) == [x : Frames(m), num_quantiles : 1..MaxQuantiles, rng : Keys]

NoArgs == [none |-> TRUE]

NoTrace == [none |-> TRUE]

AlphaValues == {RInt(0), RInt(1)}

\* alpha initialised with nn.initializers.ones
InitParamsOnes(m, seed) ==
  [seed |-> seed, bias |-> 0,
   alpha |-> IF m.kind = "NatureResidualDQNNetwork"
             THEN Array([a \in 1..m.num_actions |-> RInt(1)]) ELSE <<>>]

\* self.param('alpha', nn.initializers.zeros, self.num_actions); bias_init is zeros
InitParams(m, seed) ==
  [seed |-> seed, bias |-> 0,
   alpha |-> IF m.kind = "NatureResidualDQNNetwork"
             THEN Array([a \in 1..m.num_actions |-> RInt(0)]) ELSE <<>>]

\* The parameter sets training may produce.
ParamSets(m) ==
  {p \in [seed : Seeds, bias : {0, 1},
          alpha : IF m.kind = "NatureResidualDQNNetwork"
                  THEN [1..m.num_actions -> AlphaValues] ELSE {<<>>}] :
     p.bias <= p.seed}

Forward(m, p, clk, a) ==
  CASE m.kind = "NatureResidualDQNNetwork" -> NatureForward(m, p, a)
    [] m.kind = "ImpalaRainbowNetwork" -> RainbowForward(m, p, clk, a)
    [] m.kind = "ImpalaImplicitQuantileNetwork" -> IQNForward(m, p, a)

-----------------------------------------------------------------------------
(* The state machine of the networks.                                      *)

InitNetworks ==
  /\ module \in Modules
  /\ \E seed \in Seeds : params = InitParams(module, seed)
  /\ clock = 0
  /\ status = "idle"
  /\ args = NoArgs
  /\ trace = NoTrace
  /\ out = NoRecord
  /\ repeated = FALSE
  /\ agrees = TRUE

InitConfig ==
  /\ held = FALSE
  /\ config = NoRecord
  /\ assigned = {}

Init == InitNetworks /\ InitConfig

\* One forward pass with arguments a.  A caller that still holds the record
\* of the pass before calls once more with the same arguments; one that has
\* released it calls with any.
Call(a) ==
  /\ status = "idle" \/ (a = args /\ ~repeated)
  /\ \E r \in {Forward(module, params, clock, a)} :
       /\ args' = a
       /\ status' = r.status
       /\ trace' = r.trace
       /\ out' = r.out
       /\ repeated' = (status # "idle")
       /\ agrees' = (status # "idle" => r.status = status /\ r.out = out)
  /\ UNCHANGED <<module, params, clock>>
  /\ UNCHANGED cfgVars

NatureCall ==
  /\ module.kind = "NatureResidualDQNNetwork"
  /\ \E a \in NatureArgs(module) : Call(a)

RainbowCall ==
  /\ module.kind = "ImpalaRainbowNetwork"
  /\ \E a \in RainbowArgs(module) : Call(a)

IQNCall ==
  /\ module.kind = "ImpalaImplicitQuantileNetwork"
  /\ \E a \in IQNArgs(module) : Call(a)

\* The caller drops the record of the last forward pass.
Release ==
  /\ status # "idle"
  /\ status' = "idle"
  /\ args' = NoArgs
  /\ trace' = NoTrace
  /\ out' = NoRecord
  /\ repeated' = FALSE
  /\ agrees' = TRUE
  /\ UNCHANGED <<module, params, clock>>
  /\ UNCHANGED cfgVars

\* The training loop replaces the parameter set between forward passes.
TrainStep ==
  /\ status = "idle"
  /\ params' \in ParamSets(module) \ {params}
  /\ UNCHANGED <<module, clock, status, args, trace, out, repeated, agrees>>
  /\ UNCHANGED cfgVars

\* time.time() advances.
Tick ==
  /\ clock < MaxClock
  /\ clock' = clock + 1
  /\ UNCHANGED <<module, params, status, args, trace, out, repeated, agrees>>
  /\ UNCHANGED cfgVars

Next == NatureCall \/ RainbowCall \/ IQNCall \/ Release \/ TrainStep \/ Tick

Spec == Init /\ [][Next]_vars

-----------------------------------------------------------------------------
(* get_atari_b14_config and its caller.  An ml_collections.ConfigDict is a *)
(* mapping from field names to values; a nested ConfigDict is a value.     *)

MaxAssignments == 3

EmptyConfigDict == [f \in {} |-> <<>>]

\* config.<field> = value
SetField(cfg, field, value) ==
  [f \in DOMAIN cfg \cup {field} |-> IF f = field THEN value ELSE cfg[f]]

\* config.<group>.<field> = value
SetNested(cfg, group, field, value) ==
  SetField(cfg, group, SetField(cfg[group], field, value))

None == <<>>

\* The ViT-B/16 configuration as it stands, with its patch size of 16x16.
get_b16_config ==
  LET c1  == SetField(EmptyConfigDict, "name", "ViT-B_16")
      c2  == SetField(c1, "patches", SetField(EmptyConfigDict, "size", <<16, 16>>))
      c3  == SetField(c2, "hidden_size", 768)
      c4  == SetField(c3, "transformer", EmptyConfigDict)
      c5  == SetNested(c4, "transformer", "mlp_dim", 3072)
      c6  == SetNested(c5, "transformer", "num_heads", 12)
      c7  == SetNested(c6, "transformer", "num_layers", 12)
      c8  == SetNested(c7, "transformer", "attention_dropout_rate", <<0, 1>>)
      c9  == SetNested(c8, "transformer", "dropout_rate", <<0, 1>>)
      c10 == SetField(c9, "classifier", "token")
  IN  SetField(c10, "representation_size", None)

get_atari_b14_config ==
  LET c1  == SetField(EmptyConfigDict, "name", "ViT-B_14")
      c2  == SetField(c1, "patches", SetField(EmptyConfigDict, "size", <<14, 14>>))
      c3  == SetField(c2, "hidden_size", 768)
      c4  == SetField(c3, "transformer", EmptyConfigDict)
      c5  == SetNested(c4, "transformer", "mlp_dim", 3072)
      c6  == SetNested(c5, "transformer", "num_heads", 12)
      c7  == SetNested(c6, "transformer", "num_layers", 12)
      c8  == SetNested(c7, "transformer", "attention_dropout_rate", <<0, 1>>)
      c9  == SetNested(c8, "transformer", "dropout_rate", <<0, 1>>)
      c10 == SetField(c9, "classifier", "token")
  IN  SetField(c10, "representation_size", None)

\* The values a holder assigns to a field: of the field's type.
TopLevelValues ==
  [name |-> {"ViT-B_14", "ViT-B_16"}, hidden_size |-> {768, 1024},
   classifier |-> {"token", "gap"}, representation_size |-> {None, <<768>>}]

NestedValues ==
  [patches |-> [size |-> {<<14, 14>>, <<16, 16>>}],
   transformer |-> [mlp_dim |-> {3072, 4096}, num_heads |-> {12, 16},
                    num_layers |-> {12, 24},
                    attention_dropout_rate |-> {<<0, 1>>, <<1, 10>>},
                    dropout_rate |-> {<<0, 1>>, <<1, 10>>}]]

\* config = get_atari_b14_config(): a new record each call.
GetConfig ==
  /\ held' = TRUE
  /\ config' = get_atari_b14_config
  /\ assigned' = {}
  /\ UNCHANGED netVars

\* The holder assigns a top-level field of the record.
ConfigAssign ==
  /\ held
  /\ \E field \in DOMAIN TopLevelValues : \E value \in TopLevelValues[field] :
       /\ Cardinality(assigned \cup {<<field>>}) <= MaxAssignments
       /\ config' = SetField(config, field, value)
       /\ assigned' = assigned \cup {<<field>>}
  /\ UNCHANGED held
  /\ UNCHANGED netVars

\* The holder assigns a field of config.patches or config.transformer.
ConfigAssignNested ==
  /\ held
  /\ \E group \in DOMAIN NestedValues : \E field \in DOMAIN NestedValues[group] :
     \E value \in NestedValues[group][field] :
       /\ Cardinality(assigned \cup {<<group, field>>}) <= MaxAssignments
       /\ config' = SetNested(config, group, field, value)
       /\ assigned' = assigned \cup {<<group, field>>}
  /\ UNCHANGED held
  /\ UNCHANGED netVars

ConfigInit ==
  /\ Init
  /\ module = [kind |-> "NatureResidualDQNNetwork", num_actions |-> 1,
               inputs_preprocessed |-> FALSE]
  /\ params.seed = 0

ConfigNext == GetConfig \/ ConfigAssign \/ ConfigAssignNested

ConfigSpec == ConfigInit /\ [][ConfigNext]_vars

-----------------------------------------------------------------------------
(* Properties.                                                             *)

IsNature == module.kind = "NatureResidualDQNNetwork"

IsRainbow == module.kind = "ImpalaRainbowNetwork"

IsIQN == module.kind = "ImpalaImplicitQuantileNetwork"

\* The noisy layers of the last forward pass drew their noise from a key
\* made from the clock.
ClockKeyed ==
  IsRainbow /\ module.noisy /\ ~args.eval_mode /\ args.key = <<>>

\* C1, as stated: two forward passes of the same network with equal
\* parameters and equal arguments return equal records, also when
\* ImpalaRainbowNetwork is noisy, not in eval mode and given no key.
ForwardPassPure == repeated => agrees

\* C1, amended: two forward passes of the same network with equal parameters
\* and equal arguments return equal records, unless the network is a noisy
\* ImpalaRainbowNetwork called outside eval mode without a key.
ForwardPassPureGivenKey == (repeated /\ ~ClockKeyed) => agrees

\* A noisy pass outside eval mode with the caller's key was repeated after
\* the clock moved, and a keyless pass in eval mode was possible too.
ForwardPassRepeated ==
  /\ repeated /\ agrees /\ IsRainbow /\ module.noisy
  /\ ~args.eval_mode /\ args.key # <<>> /\ clock > 0

\* C2: a forward pass that returns, returns one record whose fields are
\* (q_values) for NatureResidualDQNNetwork, (q_values, logits, probabilities)
\* or (q_values) for ImpalaRainbowNetwork as distributional is set or not,
\* and (quantile_values, quantiles) for ImpalaImplicitQuantileNetwork; a
\* pass that does not return leaves no record.
OutputRecordFields ==
  /\ status = "returned" =>
       DOMAIN out =
         CASE IsNature -> {"q_values"}
           [] IsRainbow /\ module.distributional ->
                {"q_values", "logits", "probabilities"}
           [] IsRainbow /\ ~module.distributional -> {"q_values"}
           [] IsIQN -> {"quantile_values", "quantiles"}
  /\ status # "returned" => out = NoRecord

ScalarRecordReturned ==
  /\ status = "returned" /\ IsRainbow /\ ~module.distributional
  /\ module.dueling /\ module.noisy

\* C3: with inputs_preprocessed=False every raw pixel p reaches the first
\* layer as p/255, within [0, 1], 0 as 0 and 255 as 1; with
\* inputs_preprocessed=True the observation reaches it unchanged.
ObservationScaledOnce ==
  status # "idle" =>
    IF ~module.inputs_preprocessed
    THEN /\ Len(trace.first_layer_input) = Len(args.x)
         /\ \A i \in 1..Len(args.x) :
              LET p == args.x[i][1]
                  v == trace.first_layer_input[i]
              IN  /\ v[1] * 255 = p * v[2]
                  /\ RLe(RInt(0), v) /\ RLe(v, RInt(1))
                  /\ (p = 0 => v = RInt(0))
                  /\ (p = 255 => v = RInt(1))
    ELSE trace.first_layer_input = args.x

RawFrameScaled ==
  /\ status = "returned" /\ ~module.inputs_preprocessed
  /\ \E i \in 1..Len(args.x) : args.x[i] = RInt(255)
  /\ \E i \in 1..Len(args.x) :
       RLt(RInt(0), trace.first_layer_input[i])
         /\ RLt(trace.first_layer_input[i], RInt(1))

\* The paths of the fields of the configuration record, and a read of one.
ConfigPaths ==
  {<<f>> : f \in DOMAIN TopLevelValues}
    \cup {<<g, f>> : g \in {"patches"}, f \in DOMAIN NestedValues.patches}
    \cup {<<g, f>> : g \in {"transformer"}, f \in DOMAIN NestedValues.transformer}

ReadField(cfg, path) ==
  IF Len(path) = 1 THEN cfg[path[1]] ELSE cfg[path[1]][path[2]]

\* The hyperparameters of ViT-B/14.
HasB14Value(cfg, path) ==
  CASE path = <<"name">> -> ReadField(cfg, path) = "ViT-B_14"
    [] path = <<"patches", "size">> -> ReadField(cfg, path) = <<14, 14>>
    [] path = <<"hidden_size">> -> ReadField(cfg, path) = 768
    [] path = <<"transformer", "mlp_dim">> -> ReadField(cfg, path) = 3072
    [] path = <<"transformer", "num_heads">> -> ReadField(cfg, path) = 12
    [] path = <<"transformer", "num_layers">> -> ReadField(cfg, path) = 12
    [] path = <<"transformer", "attention_dropout_rate">> ->
         ReadField(cfg, path) = RInt(0)
    [] path = <<"transformer", "dropout_rate">> -> ReadField(cfg, path) = RInt(0)
    [] path = <<"classifier">> -> ReadField(cfg, path) = "token"
    [] path = <<"representation_size">> -> ReadField(cfg, path) = None

\* C4, as stated: once returned, the record reads the ViT-B/14
\* hyperparameters whatever its holder does.
ConfigReadOnly ==
  held => \A path \in ConfigPaths : HasB14Value(config, path)

\* C4, amended: the record is returned with the ViT-B/14 hyperparameters,
\* and every field its holder has not assigned since still reads the value
\* it was returned with.
ConfigKeepsUnassigned ==
  held =>
    /\ DOMAIN config = DOMAIN TopLevelValues \cup DOMAIN NestedValues
    /\ \A path \in ConfigPaths \ assigned : HasB14Value(config, path)

ConfigFieldAssigned ==
  /\ held
  /\ ~HasB14Value(config, <<"hidden_size">>)
  /\ ~HasB14Value(config, <<"transformer", "mlp_dim">>)
  /\ assigned = {<<"hidden_size">>, <<"transformer", "mlp_dim">>}

\* C5: a pass of ImpalaRainbowNetwork that returns has logits of num_actions
\* rows and num_atoms columns (from a 1 x num_atoms value row and a stream of
\* num_actions * num_atoms entries), probabilities of the same shape, and
\* num_actions q_values.
RainbowShapes ==
  (IsRainbow /\ status = "returned") =>
    /\ Len(trace.stream) = module.num_actions * module.num_atoms
    /\ module.dueling => IsMatrix(trace.value, 1, module.num_atoms)
    /\ IsMatrix(trace.logits, module.num_actions, module.num_atoms)
    /\ module.distributional =>
         /\ out.logits = trace.logits
         /\ IsMatrix(out.probabilities, module.num_actions, module.num_atoms)
    /\ Len(out.q_values) = module.num_actions

RainbowShapesUnequal ==
  /\ IsRainbow /\ status = "returned"
  /\ module.dueling /\ module.distributional
  /\ module.num_actions = 1 /\ module.num_atoms > 1

\* C6, as stated: a distributional pass given a support whose length is not
\* num_atoms fails and returns no record.
SupportMismatchRaises ==
  (IsRainbow /\ status # "idle" /\ module.distributional
     /\ Len(args.support) # module.num_atoms)
    => (status = "raised" /\ out = NoRecord)

\* C6, amended: a forward pass fails exactly when it is a distributional
\* pass given a support whose length is not num_atoms and neither that
\* length nor num_atoms is 1 (then the support is broadcast); a failed pass
\* returns no record.
SupportMismatchRaisesUnlessBroadcast ==
  status # "idle" =>
    /\ status = "raised" <=>
         /\ IsRainbow /\ module.distributional
         /\ Len(args.support) # module.num_atoms
         /\ Len(args.support) # 1
         /\ module.num_atoms # 1
    /\ status = "raised" => out = NoRecord

SupportMismatchRaised ==
  IsRainbow /\ status = "raised" /\ Len(args.support) > module.num_atoms

\* C7: q_values of NatureResidualDQNNetwork are the final dense layer's
\* output times alpha, entry by entry, alpha having num_actions entries;
\* with freshly initialised parameters they are all zero, and q_values[a] is
\* non-zero only if alpha[a] is.
ResidualScaledByAlpha ==
  (IsNature /\ status = "returned") =>
    /\ Len(params.alpha) = module.num_actions
    /\ Len(out.q_values) = module.num_actions
    /\ \A a \in 1..module.num_actions :
         /\ out.q_values[a] = RMul(trace.dense_out[a], params.alpha[a])
         /\ out.q_values[a] # RInt(0) => params.alpha[a] # RInt(0)
    /\ (\E seed \in Seeds : params = InitParams(module, seed)) =>
         \A a \in 1..module.num_actions : out.q_values[a] = RInt(0)

FreshResidualZero ==
  /\ IsNature /\ status = "returned"
  /\ \E seed \in Seeds : params = InitParams(module, seed)
  /\ \A a \in 1..module.num_actions : trace.dense_out[a] # RInt(0)
  /\ module.num_actions > 1

\* The advantage stream of the last forward pass, entry (a, k) of its
\* reshape to num_actions x num_atoms.
Adv(a, k) == trace.stream[(a - 1) * module.num_atoms + k]

AdvShifted(c) ==
  Array([a \in 1..module.num_actions |->
    Array([k \in 1..module.num_atoms |-> RAdd(Adv(a, k), RInt(c))])])

\* C8: with dueling=True, logits[a][k] = value[k] + (adv[a][k] - mean over
\* the actions of adv[.][k]), so that for every atom the logits less the
\* value sum to zero over the actions, and adding one constant to every
\* adv[a][k] leaves the logits unchanged; with dueling=False the logits are
\* the single stream, reshaped.
DuelingCentred ==
  (IsRainbow /\ status # "idle") =>
    IF module.dueling
    THEN /\ \A a \in 1..module.num_actions : \A k \in 1..module.num_atoms :
              trace.logits[a][k] =
                RAdd(trace.value[1][k],
                     RSub(Adv(a, k),
                          RDiv(VSum(Array([b \in 1..module.num_actions |-> Adv(b, k)])),
                               RInt(module.num_actions))))
         /\ \A k \in 1..module.num_atoms :
              VSum(Array([a \in 1..module.num_actions |->
                            RSub(trace.logits[a][k], trace.value[1][k])])) = RInt(0)
         /\ \A c \in {-1, 1, 2} :
              DuelingLogits(trace.value, AdvShifted(c)) = trace.logits
    ELSE \A a \in 1..module.num_actions : \A k \in 1..module.num_atoms :
           trace.logits[a][k] = Adv(a, k)

AdvantagesCentred ==
  /\ IsRainbow /\ status = "returned" /\ module.dueling
  /\ module.num_actions > 1 /\ module.num_atoms > 1
  /\ \E k \in 1..module.num_atoms : Adv(1, k) # Adv(2, k)
  /\ \E k \in 1..module.num_atoms : trace.value[1][k] # RInt(0)

\* The probabilities of a distributional pass: for every action,
\* non-negative and summing to 1 over the atoms.
Normalised ==
  \A a \in 1..module.num_actions :
    /\ \A k \in 1..module.num_atoms : RLe(RInt(0), out.probabilities[a][k])
    /\ VSum(out.probabilities[a]) = RInt(1)

\* q_values[a] is the sum over the atoms k of support[k] * probabilities[a][k].
ExpectationOverAtoms ==
  \A a \in 1..module.num_actions :
    out.q_values[a] =
      VSum(Array([k \in 1..module.num_atoms |->
                    RMul(args.support[k], out.probabilities[a][k])]))

WithinSupport ==
  \A a \in 1..module.num_actions :
    RLe(VMin(args.support), out.q_values[a]) /\ RLe(out.q_values[a], VMax(args.support))

ScalarSum ==
  /\ \A a \in 1..module.num_actions : out.q_values[a] = VSum(trace.logits[a])
  /\ \A s \in Supports : ScalarHead(trace.logits, s).out = out

\* C9, as stated: every distributional pass that returns has normalised
\* probabilities and q_values[a] equal to the sum over the atoms of
\* support[k] * probabilities[a][k], between the least and the greatest
\* entry of the support; a pass with distributional=False sums the logits
\* and ignores the support.
DistributionalExpectation ==
  (IsRainbow /\ status = "returned") =>
    IF module.distributional
    THEN /\ Normalised
         /\ Len(args.support) >= module.num_atoms =>
              ExpectationOverAtoms /\ WithinSupport
    ELSE ScalarSum

\* C9, amended: every distributional pass that returns has normalised
\* probabilities, and when the support has num_atoms entries q_values[a] is
\* the sum over the atoms of support[k] * probabilities[a][k], between the
\* least and the greatest entry of the support; a pass with
\* distributional=False sums the logits and ignores the support.
DistributionalExpectationOverSupport ==
  (IsRainbow /\ status = "returned") =>
    IF module.distributional
    THEN /\ Normalised
         /\ Len(args.support) = module.num_atoms =>
              ExpectationOverAtoms /\ WithinSupport
    ELSE ScalarSum

DistributionSpread ==
  /\ IsRainbow /\ status = "returned" /\ module.distributional
  /\ module.num_atoms > 1 /\ Len(args.support) = module.num_atoms
  /\ \E a \in 1..module.num_actions :
       /\ \A k \in 1..module.num_atoms : RLt(RInt(0), out.probabilities[a][k])
       /\ out.probabilities[a][1] # out.probabilities[a][2]
       /\ RLt(VMin(args.support), out.q_values[a])

\* C10: a pass of ImpalaImplicitQuantileNetwork draws num_quantiles
\* fractions in [0, 1) from rng, as a num_quantiles x 1 array; embeds each
\* as cos(pi * i * tau) for i = 1..quantile_embedding_dim; and returns one
\* row of num_actions quantile_values per fraction together with those same
\* fractions in the same order; the same rng gives the same fractions.
QuantilesDrawnAndReturned ==
  (IsIQN /\ status = "returned") =>
    /\ IsMatrix(out.quantiles, args.num_quantiles, 1)
    /\ \A q \in 1..args.num_quantiles :
         RLe(RInt(0), out.quantiles[q][1]) /\ RLt(out.quantiles[q][1], RInt(1))
    /\ IsMatrix(trace.embedding, args.num_quantiles, module.quantile_embedding_dim)
    /\ \A q \in 1..args.num_quantiles : \A i \in 1..module.quantile_embedding_dim :
         trace.embedding[q][i] = CosPi(RMul(RInt(i), out.quantiles[q][1]))
    /\ IsMatrix(out.quantile_values, args.num_quantiles, module.num_actions)
    /\ out.quantiles = RandomUniform(args.rng, args.num_quantiles)
    /\ repeated => agrees

QuantilesDistinct ==
  /\ IsIQN /\ status = "returned" /\ repeated
  /\ args.num_quantiles > 1 /\ module.quantile_embedding_dim > 1
  /\ out.quantiles[1] # out.quantiles[2]
  /\ out.quantile_values[1] # out.quantile_values[2]

=============================================================================
